---- MODULE Spec2Model ----
(***************************************************************************)
(* EVApp: the fleet model (app.py: compute_flags_and_shares, run_model)    *)
(* and the recommendation engine (recommendations.py: detect_issues,       *)
(* generate_solution_set).                                                 *)
(*                                                                         *)
(* Python floats are modelled as exact rationals <<n, d>> with d > 0 in    *)
(* lowest terms; Python ints as TLA+ integers.  Floating-point rounding    *)
(* error is therefore outside the model: "x == 1" below means equality of  *)
(* the real-number values.                                                 *)
(***************************************************************************)
EXTENDS Integers, Sequences, FiniteSets, TLC

VARIABLES
    pc,                  \* where the caller stands
    args,                \* the arguments of the call
    profile,             \* what compute_flags_and_shares returned
    results,             \* what run_model returned (st.session_state["model_results"])
    issues,              \* what detect_issues returned
    solutions,           \* what generate_solution_set returned
    prev,                \* history: the previous evaluation (Summary)
    globals,             \* app.py's module-level lists GRID_CO2_G_PER_KWH, TOU_PRICE_EUR_PER_KWH
    returned,            \* history: the calls made so far, each with its input and output
    session,             \* st.session_state: the input keys
    assistant_messages   \* st.session_state["assistant_messages"]

vars == <<pc, args, profile, results, issues, solutions, prev,
          globals, returned, session, assistant_messages>>

\* Python's None (nothing computed yet)
None == [ none |-> TRUE ]

(***************************************************************************)
(* Bounds of the model.                                                    *)
(***************************************************************************)
\* fleet sizes passed to run_model are drawn from 0..MaxTrucks
MaxTrucks == 2
\* issue lists passed directly to generate_solution_set have at most MaxIssues entries
MaxIssues == 3

(***************************************************************************)
(* Rational arithmetic (the real-number value of a Python float).          *)
(***************************************************************************)
Abs(x) == IF x < 0 THEN -x ELSE x

RECURSIVE GCD(_, _)
GCD(a, b) == IF b = 0 THEN a ELSE GCD(b, a % b)

Norm(n, d) ==
    LET s == IF d < 0 THEN -1 ELSE 1
        g == GCD(Abs(n), Abs(d))
    IN  <<(s * n) \div g, (s * d) \div g>>

R(n) == <<n, 1>>
Q(n, d) == Norm(n, d)

RAdd(a, b) == Norm(a[1] * b[2] + b[1] * a[2], a[2] * b[2])
RSub(a, b) == Norm(a[1] * b[2] - b[1] * a[2], a[2] * b[2])
\* cross-cancel before multiplying to keep the intermediate products small
RMul(a, b) ==
    LET g1 == GCD(Abs(a[1]), b[2])
        g2 == GCD(Abs(b[1]), a[2])
    IN  Norm((a[1] \div g1) * (b[1] \div g2), (a[2] \div g2) * (b[2] \div g1))
RDiv(a, b) == RMul(a, Norm(b[2], b[1]))
RLe(a, b) == a[1] * b[2] <= b[1] * a[2]
RLt(a, b) == a[1] * b[2] < b[1] * a[2]
RMax(a, b) == IF RLe(a, b) THEN b ELSE a
RMin(a, b) == IF RLe(a, b) THEN a ELSE b

\* int(x): truncation toward zero
Trunc(r) == IF r[1] >= 0 THEN r[1] \div r[2] ELSE -((-r[1]) \div r[2])

IMax(a, b) == IF a >= b THEN a ELSE b

(***************************************************************************)
(* app.py, 0) CONSTANTS                                                    *)
(***************************************************************************)
HOURS == 0 .. 23

DIESEL_CO2_PER_L == Q(264, 100)

GRID_CO2_G_PER_KWH ==
    [h \in HOURS |->
        <<80, 78, 75, 70, 65, 60, 60, 65, 70, 75, 60, 50,
          45, 45, 50, 60, 70, 80, 90, 95, 90, 83, 78, 76>>[h + 1]]

\* in EUR/kWh; the literals 0.20, 0.195, ... written as thousandths
TOU_PRICE_EUR_PER_KWH ==
    [h \in HOURS |->
        Q(<<200, 195, 190, 185, 180, 180, 185, 190,
            210, 240, 230, 220, 200, 200, 205, 210,
            230, 260, 300, 330, 310, 280, 240, 220>>[h + 1], 1000)]

\* the module-level lists as app.py defines them; Python lists are mutable, so
\* the functions below read them from the state (parameter g)
LITERAL_GLOBALS ==
    [ GRID_CO2_G_PER_KWH |-> GRID_CO2_G_PER_KWH,
      TOU_PRICE_EUR_PER_KWH |-> TOU_PRICE_EUR_PER_KWH ]

\* sum(f[h] for h in range(24)) of integers
RECURSIVE ISumTo(_, _)
ISumTo(f, n) == IF n < 0 THEN 0 ELSE ISumTo(f, n - 1) + f[n]

\* sum(f[h] for h in lo..hi) of rationals; addition of rationals is exact, so
\* the sum is taken by halves to keep the evaluation shallow
RECURSIVE RSum(_, _, _)
RSum(f, lo, hi) ==
    IF lo = hi THEN f[lo]
    ELSE LET mid == (lo + hi) \div 2
         IN  RAdd(RSum(f, lo, mid), RSum(f, mid + 1, hi))

RSumTo(f, n) == IF n < 0 THEN R(0) ELSE RSum(f, 0, n)

(***************************************************************************)
(* app.py, compute_flags_and_shares                                        *)
(***************************************************************************)
\* faulty variant: start_hour == end_hour flags nothing
FlagNoFullDay(start_hour, end_hour, h) ==
    IF start_hour < end_hour
    THEN (IF start_hour <= h /\ h < end_hour THEN 1 ELSE 0)
    ELSE IF start_hour > end_hour
    THEN (IF h >= start_hour \/ h < end_hour THEN 1 ELSE 0)
    ELSE 0

\* faulty variant: the window includes its end hour
FlagEndInclusive(start_hour, end_hour, h) ==
    IF start_hour < end_hour
    THEN (IF start_hour <= h /\ h <= end_hour THEN 1 ELSE 0)
    ELSE IF start_hour > end_hour
    THEN (IF h >= start_hour \/ h <= end_hour THEN 1 ELSE 0)
    ELSE 1

\* the body of "for h in range(24)": the flag of hour h
Flag(start_hour, end_hour, h) ==
    IF start_hour < end_hour
    THEN (IF start_hour <= h /\ h < end_hour THEN 1 ELSE 0)
    ELSE IF start_hour > end_hour
    THEN (IF h >= start_hour \/ h < end_hour THEN 1 ELSE 0)
    ELSE 1

\* faulty variant: the share is taken of the whole day, not of the flagged hours
ShareOfDay(f, total) == IF total > 0 THEN Q(f, 24) ELSE R(0)

\* (f / total) if total > 0 else 0.0
Share(f, total) == IF total > 0 THEN Q(f, total) ELSE R(0)

compute_flags_and_shares(start_hour, end_hour) ==
    LET flags == [h \in HOURS |-> Flag(start_hour, end_hour, h)]
        total == ISumTo(flags, 23)
        shares == [h \in HOURS |-> Share(flags[h], total)]
    IN  [flags |-> flags, shares |-> shares]

(***************************************************************************)
(* app.py, effective_grid_co2_kg_per_kwh / effective_energy_price_...      *)
(***************************************************************************)
effective_grid_co2_kg_per_kwh(g, shares) ==
    LET gsum == RSumTo([h \in HOURS |-> RMul(R(g.GRID_CO2_G_PER_KWH[h]), shares[h])], 23)
    IN  RDiv(gsum, R(1000))

effective_energy_price_eur_per_mwh(g, avg_price_eur_per_mwh, dynamic_share_in, shares) ==
    LET avg_price_eur_per_kwh == RDiv(RMax(R(0), avg_price_eur_per_mwh), R(1000))
        dynamic_share == RMin(RMax(dynamic_share_in, R(0)), R(1))
        curve_avg == RDiv(RSumTo(g.TOU_PRICE_EUR_PER_KWH, 23), R(24))
        window_avg == RSumTo([h \in HOURS |-> RMul(g.TOU_PRICE_EUR_PER_KWH[h], shares[h])], 23)
        rel == IF RLt(R(0), curve_avg) THEN RDiv(window_avg, curve_avg) ELSE R(1)
        fixed_part == RMul(avg_price_eur_per_kwh, RSub(R(1), dynamic_share))
        dynamic_part == RMul(RMul(avg_price_eur_per_kwh, dynamic_share), rel)
        eff_eur_per_kwh == RAdd(fixed_part, dynamic_part)
    IN  RMul(eff_eur_per_kwh, R(1000))

(***************************************************************************)
(* app.py, run_model                                                       *)
(***************************************************************************)
\* faulty variant: the "limit > 0" guard is missing
CapacityOkNoGuard(new_theoretical_peak_kw, site_capacity_limit_kva) ==
    RLe(new_theoretical_peak_kw, site_capacity_limit_kva)

\* faulty variant: the comparison is the wrong way round
CapacityOkFlipped(new_theoretical_peak_kw, site_capacity_limit_kva) ==
    IF RLt(R(0), site_capacity_limit_kva)
    THEN RLe(site_capacity_limit_kva, new_theoretical_peak_kw)
    ELSE TRUE

\* (new_theoretical_peak_kw <= site_capacity_limit_kva) if site_capacity_limit_kva > 0 else True
CapacityOk(new_theoretical_peak_kw, site_capacity_limit_kva) ==
    IF RLt(R(0), site_capacity_limit_kva)
    THEN RLe(new_theoretical_peak_kw, site_capacity_limit_kva)
    ELSE TRUE

\* a division by zero ends the call with an exception instead of a result
ZeroDivisionError == [ error |-> "ZeroDivisionError" ]

\* faulty variant: a fleet of zero trucks is let through
ClampNumTrucksFromZero(x) == IMax(0, Trunc(x))

\* num_trucks = max(1, int(num_trucks))
ClampNumTrucks(x) == IMax(1, Trunc(x))

\* faulty variant: the difference is not floored at zero
SocDiffUnfloored(target_soc, start_soc) == RSub(target_soc, start_soc)

\* soc_diff = max(0.0, target_soc - start_soc)
SocDiff(target_soc, start_soc) == RMax(R(0), RSub(target_soc, start_soc))

\* faulty variant: the whole battery is charged at every event
EnergyPerEventFullBattery(battery_kwh, soc_diff) == battery_kwh

\* energy_per_event_kwh = battery_kwh * soc_diff
EnergyPerEventKwh(battery_kwh, soc_diff) == RMul(battery_kwh, soc_diff)

\* faulty variant: the energy of one truck is taken for the fleet
TotalDailyEnergyOneTruck(num_trucks, events_per_truck_per_day, energy_per_event_mwh) ==
    RMul(events_per_truck_per_day, energy_per_event_mwh)

\* total_daily_energy_mwh = num_trucks * events_per_truck_per_day * energy_per_event_mwh
TotalDailyEnergyMwh(num_trucks, events_per_truck_per_day, energy_per_event_mwh) ==
    RMul(RMul(R(num_trucks), events_per_truck_per_day), energy_per_event_mwh)

run_model(g, a) ==
    LET num_trucks == ClampNumTrucks(a.num_trucks)
        operating_days == IMax(1, Trunc(a.operating_days))
        events_per_truck_per_day == RMax(R(0), a.events_per_truck_per_day)
        battery_kwh == RMax(R(0), a.battery_kwh)
        start_soc == RMin(RMax(a.start_soc, R(0)), R(1))
        target_soc == RMin(RMax(a.target_soc, R(0)), R(1))
        ev_consumption_kwh_per_km == RMax(Q(1, 100), a.ev_consumption_kwh_per_km)
        charging_window_hours == RMax(Q(1, 10), a.charging_window_hours)
        dynamic_price_share == RMin(RMax(a.dynamic_price_share, R(0)), R(1))
        tolled_share_0_1 == RMin(RMax(a.tolled_share_0_1, R(0)), R(1))
        peak_duration_h == RMax(R(0), a.peak_duration_h)

        start_h == Trunc(a.start_hour) % 24
        end_h == Trunc(a.end_hour) % 24
        fs == compute_flags_and_shares(start_h, end_h)
        flags == fs.flags
        shares == fs.shares
        charging_hours_by_clock == ISumTo(flags, 23)

        \* Energy
        soc_diff == SocDiff(target_soc, start_soc)
        energy_per_event_kwh == EnergyPerEventKwh(battery_kwh, soc_diff)
        energy_per_event_mwh == RDiv(energy_per_event_kwh, R(1000))
        total_daily_energy_mwh ==
            TotalDailyEnergyMwh(num_trucks, events_per_truck_per_day, energy_per_event_mwh)
        annual_energy_mwh == RMul(total_daily_energy_mwh, R(operating_days))
        eff_price_eur_per_mwh ==
            effective_energy_price_eur_per_mwh(
                g, a.avg_elec_price_eur_per_mwh, dynamic_price_share, shares)
        daily_cost_eur == RMul(total_daily_energy_mwh, eff_price_eur_per_mwh)
        annual_cost_eur == RMul(annual_energy_mwh, eff_price_eur_per_mwh)

        \* CO2
        eff_grid_co2_kg_per_kwh == effective_grid_co2_kg_per_kwh(g, shares)
        annual_energy_kwh == RMul(annual_energy_mwh, R(1000))
        annual_ev_co2_kg == RMul(annual_energy_kwh, eff_grid_co2_kg_per_kwh)

        \* Distance (derived)
        daily_energy_kwh == RMul(total_daily_energy_mwh, R(1000))
        kwh_per_truck_per_day == RDiv(daily_energy_kwh, R(num_trucks))
        km_per_truck_per_day == RDiv(kwh_per_truck_per_day, ev_consumption_kwh_per_km)
        annual_km_per_truck == RMul(km_per_truck_per_day, R(operating_days))
        annual_km_fleet == RMul(annual_km_per_truck, R(num_trucks))

        \* Diesel baseline
        diesel_litres_baseline == RDiv(RMul(annual_km_fleet, a.diesel_l_per_100km), R(100))
        diesel_cost_baseline == RMul(diesel_litres_baseline, a.diesel_price_eur_per_l)
        diesel_co2_baseline_kg == RMul(diesel_litres_baseline, DIESEL_CO2_PER_L)

        \* EV scenario
        ev_cost == annual_cost_eur
        ev_co2_kg == annual_ev_co2_kg
        cost_savings_eur == RSub(diesel_cost_baseline, ev_cost)
        co2_savings_kg == RSub(diesel_co2_baseline_kg, ev_co2_kg)

        \* Toll
        baseline_toll_cost == RMul(RMul(annual_km_fleet, tolled_share_0_1), a.toll_rate_eur_per_km)
        ev_toll_cost == IF a.ev_toll_exempt THEN R(0) ELSE baseline_toll_cost
        toll_savings == RSub(baseline_toll_cost, ev_toll_cost)
        total_savings_incl_toll == RAdd(cost_savings_eur, toll_savings)

        \* Load / capacity
        total_charge_power_kw == RMul(R(num_trucks), a.charger_power_per_truck_kw)
        new_theoretical_peak_kw == RAdd(a.existing_site_peak_kw, total_charge_power_kw)
        avg_charging_power_kw == RDiv(daily_energy_kwh, charging_window_hours)
        new_avg_load_kw == RAdd(a.existing_site_peak_kw, avg_charging_power_kw)
        capacity_ok == CapacityOk(new_theoretical_peak_kw, a.site_capacity_limit_kva)

        \* Optional peak shaving
        desired_peak_limit_kw == RMax(R(0), a.desired_peak_limit_kw)
        required_shaving_kw ==
            IF RLt(R(0), desired_peak_limit_kw)
            THEN RMax(R(0), RSub(new_theoretical_peak_kw, desired_peak_limit_kw))
            ELSE R(0)
        required_battery_energy_kwh ==
            IF RLt(R(0), peak_duration_h) THEN RMul(required_shaving_kw, peak_duration_h) ELSE R(0)

        \* the divisors of "/": num_trucks, ev_consumption_kwh_per_km and
        \* charging_window_hours (the others are the literals 1000.0 and 100.0;
        \* total and curve_avg are guarded by "if ... > 0")
        raises == \/ num_trucks = 0
                  \/ ev_consumption_kwh_per_km[1] = 0
                  \/ charging_window_hours[1] = 0
    IN  IF raises THEN ZeroDivisionError ELSE
        [ inputs |->
            [ num_trucks |-> num_trucks,
              operating_days |-> operating_days,
              events_per_truck_per_day |-> events_per_truck_per_day,
              battery_kwh |-> battery_kwh,
              start_soc |-> start_soc,
              target_soc |-> target_soc,
              avg_elec_price_eur_per_mwh |-> a.avg_elec_price_eur_per_mwh,
              dynamic_price_share |-> dynamic_price_share,
              start_hour |-> start_h,
              end_hour |-> end_h,
              charging_window_hours |-> charging_window_hours,
              existing_site_peak_kw |-> a.existing_site_peak_kw,
              charger_power_per_truck_kw |-> a.charger_power_per_truck_kw,
              site_capacity_limit_kva |-> a.site_capacity_limit_kva,
              ev_consumption_kwh_per_km |-> ev_consumption_kwh_per_km,
              diesel_price_eur_per_l |-> a.diesel_price_eur_per_l,
              diesel_l_per_100km |-> a.diesel_l_per_100km,
              toll_rate_eur_per_km |-> a.toll_rate_eur_per_km,
              tolled_share_0_1 |-> tolled_share_0_1,
              ev_toll_exempt |-> a.ev_toll_exempt,
              desired_peak_limit_kw |-> desired_peak_limit_kw,
              peak_duration_h |-> peak_duration_h ],
          charging_profile |->
            [ charging_hours_by_clock |-> charging_hours_by_clock,
              flags |-> flags,
              shares |-> shares,
              grid_co2_g_per_kwh |-> g.GRID_CO2_G_PER_KWH,
              tou_price_eur_per_kwh |-> g.TOU_PRICE_EUR_PER_KWH ],
          energy_cost |->
            [ soc_diff |-> soc_diff,
              energy_per_event_mwh |-> energy_per_event_mwh,
              total_daily_energy_mwh |-> total_daily_energy_mwh,
              annual_energy_mwh |-> annual_energy_mwh,
              effective_price_eur_per_mwh |-> eff_price_eur_per_mwh,
              daily_cost_eur |-> daily_cost_eur,
              annual_cost_eur |-> annual_cost_eur ],
          co2 |->
            [ effective_grid_co2_kg_per_kwh |-> eff_grid_co2_kg_per_kwh,
              annual_ev_co2_kg |-> annual_ev_co2_kg ],
          distance |->
            [ kwh_per_truck_per_day |-> kwh_per_truck_per_day,
              km_per_truck_per_day |-> km_per_truck_per_day,
              annual_km_per_truck |-> annual_km_per_truck,
              annual_km_fleet |-> annual_km_fleet ],
          diesel_vs_ev |->
            [ diesel_litres_baseline |-> diesel_litres_baseline,
              diesel_cost_baseline_eur |-> diesel_cost_baseline,
              diesel_co2_baseline_kg |-> diesel_co2_baseline_kg,
              ev_cost_eur |-> ev_cost,
              ev_co2_kg |-> ev_co2_kg,
              cost_savings_eur |-> cost_savings_eur,
              co2_savings_kg |-> co2_savings_kg,
              baseline_toll_cost_eur |-> baseline_toll_cost,
              toll_savings_eur |-> toll_savings,
              total_savings_incl_toll_eur |-> total_savings_incl_toll ],
          load |->
            [ total_charge_power_kw |-> total_charge_power_kw,
              new_theoretical_peak_kw |-> new_theoretical_peak_kw,
              avg_charging_power_kw |-> avg_charging_power_kw,
              new_avg_load_kw |-> new_avg_load_kw,
              capacity_ok |-> capacity_ok,
              required_shaving_kw |-> required_shaving_kw,
              required_battery_energy_kwh |-> required_battery_energy_kwh ] ]

(***************************************************************************)
(* recommendations.py, detect_issues                                       *)
(***************************************************************************)
\* faulty variant: zero savings does not fire
NegativeBusinessCaseStrict(dv) == RLt(dv.total_savings_incl_toll_eur, R(0))

\* dv["total_savings_incl_toll_eur"] <= 0
NegativeBusinessCase(dv) == RLe(dv.total_savings_incl_toll_eur, R(0))

\* load["new_theoretical_peak_kw"] > 1.5 * load["new_avg_load_kw"]
HighPeakConcentration(load) ==
    RLt(RMul(Q(15, 10), load.new_avg_load_kw), load.new_theoretical_peak_kw)

CAPACITY_EXCEEDED ==
    [ id |-> "capacity_exceeded", severity |-> "high",
      description |-> "Site connection / grid capacity is exceeded by EV charging load." ]
HIGH_PEAK_CONCENTRATION ==
    [ id |-> "high_peak_concentration", severity |-> "medium",
      description |-> "Charging demand is highly concentrated, creating peak stress." ]
NEGATIVE_BUSINESS_CASE ==
    [ id |-> "negative_business_case", severity |-> "medium",
      description |-> "EV operating costs are not lower than diesel under current assumptions." ]

detect_issues(res) ==
    LET load == res.load
        dv == res.diesel_vs_ev
        i0 == << >>
        i1 == IF ~load.capacity_ok THEN Append(i0, CAPACITY_EXCEEDED) ELSE i0
        i2 == IF HighPeakConcentration(load) THEN Append(i1, HIGH_PEAK_CONCENTRATION) ELSE i1
        i3 == IF NegativeBusinessCase(dv) THEN Append(i2, NEGATIVE_BUSINESS_CASE) ELSE i2
    IN  i3

(***************************************************************************)
(* recommendations.py, generate_solution_set                               *)
(***************************************************************************)
SMART_CHARGING == "Smart charging / load management"
BATTERY_STORAGE == "Battery energy storage (peak shaving)"
REDUCE_CHARGER_POWER == "Reduce charger power rating"
GRID_UPGRADE == "Grid connection / transformer upgrade"
SHIFT_CHARGING == "Shift charging to cheaper / lower-CO2 hours"

\* {i["id"] for i in issues}
IssueIds(iss) == { iss[k].id : k \in 1 .. Len(iss) }

\* faulty variant: the upgrade is offered for any issue
GridUpgradeForAnyIssue(issue_ids) == issue_ids # {}

\* SOLUTION 4: if "capacity_exceeded" in issue_ids
GridUpgradeApplies(issue_ids) == "capacity_exceeded" \in issue_ids

\* faulty variant: the peak solutions are offered only on a capacity overload
PeakSolutionOnlyOnCapacity(issue_ids) == "capacity_exceeded" \in issue_ids

\* SOLUTIONS 1-3: if issue_ids & {"capacity_exceeded", "high_peak_concentration"}
PeakSolutionApplies(issue_ids) ==
    issue_ids \cap {"capacity_exceeded", "high_peak_concentration"} # {}

\* list.sort(key=rank_score, reverse=True): stable, equal keys keep their order.
\* Insert x after every element whose score is >= its own.
RECURSIVE InsertByScore(_, _)
InsertByScore(sorted, x) ==
    IF sorted = << >> THEN <<x>>
    ELSE IF Head(sorted).rank_score >= x.rank_score
         THEN <<Head(sorted)>> \o InsertByScore(Tail(sorted), x)
         ELSE <<x>> \o sorted

\* faulty variant: the sort is skipped
SortSkipped(s) == s

RECURSIVE SortByScoreDesc(_)
SortByScoreDesc(s) ==
    IF s = << >> THEN << >>
    ELSE InsertByScore(SortByScoreDesc(SubSeq(s, 1, Len(s) - 1)), s[Len(s)])

\* faulty variant: the list is returned whole
FirstThreeMissing(s) == s

\* solutions[:3]
FirstThree(s) == SubSeq(s, 1, IF Len(s) < 3 THEN Len(s) ELSE 3)

\* round(x) to the nearest integer, halves to the even neighbour
RoundHalfEven(x) ==
    LET f == IF x[1] >= 0 THEN x[1] \div x[2] ELSE -(((-x[1]) + x[2] - 1) \div x[2])
        twice == RSub(RMul(R(2), x), R(2 * f))      \* 2 * (x - floor(x)), in [0, 2)
    IN  IF RLt(twice, R(1)) THEN f
        ELSE IF RLt(R(1), twice) THEN f + 1
        ELSE IF f % 2 = 0 THEN f ELSE f + 1

\* round(x, 1) and round(x, 0): a float again
Round1(x) == Q(RoundHalfEven(RMul(x, R(10))), 10)
Round0(x) == R(RoundHalfEven(x))

\* sorted(range(24), key=lambda h: curve[h])[:5], the keys as rationals:
\* sorted() is stable, so hour h stands after every hour with a smaller key
\* and every earlier hour with the same key
FirstFiveHours(curve) ==
    LET before(h) == { g \in HOURS : RLt(curve[g], curve[h])
                                     \/ (curve[g] = curve[h] /\ g < h) }
    IN  [ k \in 1 .. 5 |-> CHOOSE h \in HOURS : Cardinality(before(h)) = k - 1 ]

\* sum(flags[h] for h in hours)
Covered(flags, hours) == Cardinality({ k \in 1 .. Len(hours) : flags[hours[k]] = 1 })

\* min(curve)
MinOfCurve(curve) == CHOOSE v \in { curve[h] : h \in HOURS } : \A h \in HOURS : RLe(v, curve[h])

\* SOLUTION 1
SmartChargingSolution(res) ==
    [ title |-> SMART_CHARGING,
      quantitative |->
        [ peak_reduction_kw |-> Round1(res.load.required_shaving_kw),
          overload_kw |-> Round1(RSub(res.load.new_theoretical_peak_kw,
                                      res.inputs.site_capacity_limit_kva)),
          capex_level |-> "low" ],
      rank_score |-> 90 ]

\* SOLUTION 2
BatteryStorageSolution(res) ==
    [ title |-> BATTERY_STORAGE,
      quantitative |->
        [ required_battery_kwh |-> Round1(res.load.required_battery_energy_kwh),
          required_power_kw |-> Round1(res.load.required_shaving_kw),
          capex_level |-> "high" ],
      rank_score |-> 70 ]

\* SOLUTION 3
ReduceChargerPowerSolution(res) ==
    [ title |-> REDUCE_CHARGER_POWER,
      quantitative |->
        [ current_charger_kw |-> res.inputs.charger_power_per_truck_kw,
          recommended_charger_kw |->
              Round0(RMax(RMul(res.inputs.charger_power_per_truck_kw, Q(1, 2)), R(50))),
          capex_level |-> "low" ],
      rank_score |-> 65 ]

\* SOLUTION 4
GridUpgradeSolution(res) ==
    [ title |-> GRID_UPGRADE,
      quantitative |->
        [ required_capacity_kva |-> Round0(res.load.new_theoretical_peak_kw),
          capex_level |-> "very high" ],
      rank_score |-> 40 ]

\* SOLUTION 5.  cheapest_hours, lowest_co2_hours, covered_cheapest and
\* covered_co2 are locals of generate_solution_set (recommendations.py
\* 188-192); the dict appended at 194-232 does not contain them.
cheapest_hours(res) == FirstFiveHours(res.charging_profile.tou_price_eur_per_kwh)
lowest_co2_hours(res) ==
    FirstFiveHours([ h \in HOURS |-> R(res.charging_profile.grid_co2_g_per_kwh[h]) ])
covered_cheapest(res) == Covered(res.charging_profile.flags, cheapest_hours(res))
covered_co2(res) == Covered(res.charging_profile.flags, lowest_co2_hours(res))

ShiftChargingSolution(res) ==
    [ title |-> SHIFT_CHARGING,
      category |-> "Energy cost / CO2",
      priority |-> "high",
      rank_score |-> 95,
      applicable_if |-> <<"negative_business_case", "cost_optimisation_opportunity">>,
      quantitative |->
        [ current_effective_price_eur_per_mwh |->
              Round1(res.energy_cost.effective_price_eur_per_mwh),
          cheapest_tou_price_eur_per_kwh |->
              MinOfCurve(res.charging_profile.tou_price_eur_per_kwh) ] ]

\* the candidates in the order the code appends them, before the final sort
EmittedSolutions(res, iss) ==
    LET issue_ids == IssueIds(iss)
        s0 == << >>
        s1 == IF PeakSolutionApplies(issue_ids)
              THEN Append(s0, SmartChargingSolution(res))
              ELSE s0
        s2 == IF PeakSolutionApplies(issue_ids)
              THEN Append(s1, BatteryStorageSolution(res))
              ELSE s1
        s3 == IF PeakSolutionApplies(issue_ids)
              THEN Append(s2, ReduceChargerPowerSolution(res))
              ELSE s2
        s4 == IF GridUpgradeApplies(issue_ids)
              THEN Append(s3, GridUpgradeSolution(res))
              ELSE s3
        \* SOLUTION 5 is appended unconditionally
        s5 == Append(s4, ShiftChargingSolution(res))
    IN  s5

generate_solution_set(res, iss) ==
    FirstThree(SortByScoreDesc(EmittedSolutions(res, iss)))

(***************************************************************************)
(* Inputs.  DefaultArgs are the defaults of recalc_from_state; the other   *)
(* argument sets vary the inputs the load check, the peak rule and the     *)
(* business case depend on.                                                *)
(***************************************************************************)
DefaultArgs ==
    [ num_trucks |-> R(10),
      operating_days |-> R(260),
      events_per_truck_per_day |-> R(1),
      battery_kwh |-> R(500),
      start_soc |-> Q(2, 10),
      target_soc |-> R(1),
      avg_elec_price_eur_per_mwh |-> R(200),
      dynamic_price_share |-> R(1),
      start_hour |-> R(6),
      end_hour |-> R(20),
      charging_window_hours |-> R(14),
      existing_site_peak_kw |-> R(300),
      charger_power_per_truck_kw |-> R(150),
      site_capacity_limit_kva |-> R(630),
      ev_consumption_kwh_per_km |-> Q(16, 10),
      diesel_price_eur_per_l |-> Q(18, 10),
      diesel_l_per_100km |-> R(28),
      toll_rate_eur_per_km |-> Q(25, 100),
      tolled_share_0_1 |-> Q(6, 10),
      ev_toll_exempt |-> TRUE,
      desired_peak_limit_kw |-> R(0),
      peak_duration_h |-> Q(25, 100) ]

ModelArgs ==
    { [ DefaultArgs EXCEPT !.num_trucks = R(n),
                           !.existing_site_peak_kw = e,
                           !.charger_power_per_truck_kw = c,
                           !.site_capacity_limit_kva = l,
                           !.target_soc = t,
                           !.diesel_price_eur_per_l = d ] :
        n \in 0 .. MaxTrucks,
        e \in {R(0), R(300)},
        c \in {R(0), R(150)},
        l \in {R(0), R(200), R(450)},
        t \in {R(0), R(1)},
        d \in {R(0), Q(18, 10)} }

\* run_model on every input of ModelArgs with the lists as defined, evaluated once
RunModelTable == [ a \in ModelArgs |-> run_model(LITERAL_GLOBALS, a) ]

\* the call run_model(a) in the state whose module-level lists are g
RunModel(g, a) ==
    IF g = LITERAL_GLOBALS /\ a \in DOMAIN RunModelTable
    THEN RunModelTable[a]
    ELSE run_model(g, a)

RankArgs == { [ DefaultArgs EXCEPT !.num_trucks = R(n) ] : n \in 0 .. MaxTrucks }

RECURSIVE SeqsUpTo(_, _)
SeqsUpTo(S, n) ==
    IF n = 0 THEN { << >> }
    ELSE SeqsUpTo(S, n - 1) \cup
         { Append(q, x) : q \in { r \in SeqsUpTo(S, n - 1) : Len(r) = n - 1 }, x \in S }

\* any list of issues a caller may pass
IssueLists == SeqsUpTo({CAPACITY_EXCEEDED, HIGH_PEAK_CONCENTRATION, NEGATIVE_BUSINESS_CASE}, MaxIssues)

(***************************************************************************)
(* Actions: one per call.                                                  *)
(***************************************************************************)
\* what the previous evaluation found, kept to compare two evaluations
Summary(res, iss) ==
    [ site_capacity_limit_kva |-> res.inputs.site_capacity_limit_kva,
      new_theoretical_peak_kw |-> res.load.new_theoretical_peak_kw,
      issue_ids |-> IssueIds(iss) ]

(***************************************************************************)
(* What a call writes to the objects it can reach, h = [globals, results,  *)
(* issues]: the lists are stored in the result by reference (app.py        *)
(* 189-190) and only read; sorted() and the slice build new lists and      *)
(* sort() is applied to the local list solutions only.                     *)
(***************************************************************************)
\* faulty variant: the price curve is normalised in place before use
RunModelScalesCurve(h) ==
    [ h EXCEPT !.globals.TOU_PRICE_EUR_PER_KWH =
        [ x \in HOURS |-> RMul(R(2), h.globals.TOU_PRICE_EUR_PER_KWH[x]) ] ]

run_model_writes(h) == h

detect_issues_writes(h) == h

\* faulty variant: the issue list is emptied while it is read (issues.pop())
GenerateSolutionSetDrainsIssues(h) == [ h EXCEPT !.issues = << >> ]

generate_solution_set_writes(h) == h

Heap == [ globals |-> globals, results |-> results, issues |-> issues ]

Quiet == UNCHANGED <<session, assistant_messages>>

CallComputeFlagsAndShares ==
    /\ pc = "profile"
    /\ profile' = compute_flags_and_shares(args.start_hour, args.end_hour)
    /\ pc' = "profile_done"
    /\ UNCHANGED <<args, results, issues, solutions, prev, globals, returned>>
    /\ Quiet

\* run_model(a) for some a of the set S
RunModelStep(S) ==
    /\ pc = "idle"
    /\ \E a \in S :
          /\ args' = a
          /\ results' = RunModel(globals, a)
    /\ globals' = run_model_writes(Heap).globals
    /\ issues' = run_model_writes(Heap).issues
    /\ prev' = IF results = None THEN None ELSE Summary(results, issues)
    /\ pc' = "model"
    /\ UNCHANGED <<profile, solutions>>
    /\ Quiet

DetectIssuesStep ==
    /\ pc = "model"
    /\ results # ZeroDivisionError   \* an exception of run_model propagates
    /\ issues' = detect_issues(results)
    /\ globals' = detect_issues_writes(Heap).globals
    /\ results' = detect_issues_writes(Heap).results
    /\ pc' = "issues"
    /\ UNCHANGED <<args, profile, solutions, prev>>
    /\ Quiet

GenerateSolutionSetStep ==
    /\ pc = "issues"
    /\ solutions' = generate_solution_set(results, issues)
    /\ globals' = generate_solution_set_writes(Heap).globals
    /\ results' = generate_solution_set_writes(Heap).results
    /\ issues' = generate_solution_set_writes(Heap).issues
    /\ pc' = "idle"
    /\ UNCHANGED <<args, profile, prev>>
    /\ Quiet

CallRunModel == RunModelStep(ModelArgs) /\ UNCHANGED returned

CallDetectIssues == DetectIssuesStep /\ UNCHANGED returned

CallGenerateSolutionSet == GenerateSolutionSetStep /\ UNCHANGED returned

(***************************************************************************)
(* Spec: the evaluation pipeline run_model -> detect_issues ->             *)
(* generate_solution_set, repeated with new inputs.                        *)
(***************************************************************************)
Init ==
    /\ pc = "idle"
    /\ args = None
    /\ profile = None
    /\ results = None
    /\ issues = << >>
    /\ solutions = << >>
    /\ prev = None
    /\ globals = LITERAL_GLOBALS
    /\ returned = << >>
    /\ session = None
    /\ assistant_messages = << >>

Next == CallRunModel \/ CallDetectIssues \/ CallGenerateSolutionSet

Spec == Init /\ [][Next]_vars

(***************************************************************************)
(* SpecRank: generate_solution_set called with any result and any issue    *)
(* list.                                                                   *)
(***************************************************************************)
InitRank ==
    /\ pc = "issues"
    /\ args \in RankArgs
    /\ results = run_model(LITERAL_GLOBALS, args)
    /\ issues \in IssueLists
    /\ profile = None
    /\ solutions = << >>
    /\ prev = None
    /\ globals = LITERAL_GLOBALS
    /\ returned = << >>
    /\ session = None
    /\ assistant_messages = << >>

NextRank == CallGenerateSolutionSet

SpecRank == InitRank /\ [][NextRank]_vars

(***************************************************************************)
(* SpecProfile: compute_flags_and_shares called with any two clock hours.  *)
(***************************************************************************)
InitProfile ==
    /\ pc = "profile"
    /\ args \in [ start_hour : HOURS, end_hour : HOURS ]
    /\ profile = None
    /\ results = None
    /\ issues = << >>
    /\ solutions = << >>
    /\ prev = None
    /\ globals = LITERAL_GLOBALS
    /\ returned = << >>
    /\ session = None
    /\ assistant_messages = << >>

NextProfile == CallComputeFlagsAndShares

SpecProfile == InitProfile /\ [][NextProfile]_vars

(***************************************************************************)
(* SpecModel: one evaluation of run_model on arguments outside as well as *)
(* inside the ranges of the widgets (a caller other than the sidebar, or  *)
(* the assistant's update_inputs, can pass any number), followed by       *)
(* detect_issues and generate_solution_set.                               *)
(***************************************************************************)
\* one truck, one operating day: keeps the distances small when the
\* consumption is floored at 0.01 kWh/km
SmallArgs == [ DefaultArgs EXCEPT !.num_trucks = R(1), !.operating_days = R(1) ]

\* a tenth of the default operating year: keeps the annual sums of the
\* product below within 32-bit numerators and denominators
ShortYearArgs == [ DefaultArgs EXCEPT !.operating_days = R(26) ]

WideArgs ==
    { [ ShortYearArgs EXCEPT !.num_trucks = n,
                             !.start_soc = s,
                             !.target_soc = t,
                             !.battery_kwh = b,
                             !.charger_power_per_truck_kw = c ] :
        n \in { R(k) : k \in -1 .. MaxTrucks } \cup { Q(5, 2) },
        s \in { R(0), Q(2, 10), R(1), Q(3, 2) },
        t \in { Q(-1, 2), Q(1, 2), R(1) },
        b \in { R(-100), R(500) },
        c \in { R(-150), R(150) } }
    \cup
    { DefaultArgs,
      [ DefaultArgs EXCEPT !.operating_days = R(0) ],
      [ DefaultArgs EXCEPT !.events_per_truck_per_day = R(-1) ],
      [ ShortYearArgs EXCEPT !.events_per_truck_per_day = R(2) ],
      [ DefaultArgs EXCEPT !.avg_elec_price_eur_per_mwh = R(-200) ],
      [ DefaultArgs EXCEPT !.dynamic_price_share = R(2) ],
      [ DefaultArgs EXCEPT !.dynamic_price_share = R(-1) ],
      [ ShortYearArgs EXCEPT !.start_hour = R(30), !.end_hour = R(-1) ],
      [ ShortYearArgs EXCEPT !.start_hour = R(7), !.end_hour = R(7) ],
      [ DefaultArgs EXCEPT !.charging_window_hours = R(0) ],
      [ DefaultArgs EXCEPT !.existing_site_peak_kw = R(-300) ],
      [ DefaultArgs EXCEPT !.site_capacity_limit_kva = R(-630) ],
      [ DefaultArgs EXCEPT !.diesel_price_eur_per_l = Q(-18, 10) ],
      [ DefaultArgs EXCEPT !.diesel_l_per_100km = R(-28) ],
      [ DefaultArgs EXCEPT !.toll_rate_eur_per_km = Q(-25, 100), !.ev_toll_exempt = FALSE ],
      [ DefaultArgs EXCEPT !.tolled_share_0_1 = R(-1) ],
      [ DefaultArgs EXCEPT !.desired_peak_limit_kw = R(-50) ],
      [ DefaultArgs EXCEPT !.desired_peak_limit_kw = R(500), !.peak_duration_h = R(-1) ],
      [ SmallArgs EXCEPT !.ev_consumption_kwh_per_km = R(0) ],
      [ SmallArgs EXCEPT !.ev_consumption_kwh_per_km = R(-1) ],
      [ SmallArgs EXCEPT !.num_trucks = R(0),
                         !.ev_consumption_kwh_per_km = R(0),
                         !.charging_window_hours = R(0) ] }

\* the first (and only) call of run_model, on the arguments chosen by InitModel
CallRunModelOnce ==
    /\ results = None
    /\ RunModelStep({args})
    /\ UNCHANGED returned

InitModel ==
    /\ pc = "idle"
    /\ args \in WideArgs
    /\ profile = None
    /\ results = None
    /\ issues = << >>
    /\ solutions = << >>
    /\ prev = None
    /\ globals = LITERAL_GLOBALS
    /\ returned = << >>
    /\ session = None
    /\ assistant_messages = << >>

NextModel ==
    \/ CallRunModelOnce
    \/ CallDetectIssues
    \/ CallGenerateSolutionSet

SpecModel == InitModel /\ [][NextModel]_vars

(***************************************************************************)
(* app.py, the Streamlit script: session state, sidebar widgets,          *)
(* recalc_from_state, the FleetMate assistant.                            *)
(***************************************************************************)
MaxMessages == 2

ALLOWED_INPUT_KEYS ==
    { "num_trucks", "operating_days", "events_per_truck",
      "battery_kwh", "start_soc", "target_soc", "ev_consumption",
      "avg_elec_price_mwh", "dynamic_share",
      "start_hour", "end_hour", "charging_window_hours",
      "existing_peak_kw", "charger_power_kw", "site_capacity_kva",
      "desired_peak_limit_kw", "peak_duration_h",
      "diesel_price", "diesel_l_per_100",
      "toll_rate", "tolled_share", "ev_toll_exempt" }

\* st.session_state after the widgets of the first script run: every widget
\* key holds the widget's default value
WidgetDefaults ==
    [ num_trucks |-> R(10),
      operating_days |-> R(260),
      events_per_truck |-> R(1),
      battery_kwh |-> R(500),
      start_soc |-> Q(2, 10),
      target_soc |-> R(1),
      ev_consumption |-> Q(16, 10),
      avg_elec_price_mwh |-> R(200),
      dynamic_share |-> R(1),
      start_hour |-> R(6),
      end_hour |-> R(20),
      charging_window_hours |-> R(14),
      existing_peak_kw |-> R(300),
      charger_power_kw |-> R(150),
      site_capacity_kva |-> R(630),
      desired_peak_limit_kw |-> R(0),
      peak_duration_h |-> Q(25, 100),
      diesel_price |-> Q(18, 10),
      diesel_l_per_100 |-> R(28),
      toll_rate |-> Q(25, 100),
      tolled_share |-> Q(6, 10),
      ev_toll_exempt |-> TRUE,
      last_gemini_payload |-> None,
      assistant_is_open |-> FALSE ]

\* the keyword arguments recalc_from_state passes to run_model
RecalcArgs(s) ==
    [ num_trucks |-> s.num_trucks,
      operating_days |-> s.operating_days,
      events_per_truck_per_day |-> s.events_per_truck,
      battery_kwh |-> s.battery_kwh,
      start_soc |-> s.start_soc,
      target_soc |-> s.target_soc,
      avg_elec_price_eur_per_mwh |-> s.avg_elec_price_mwh,
      dynamic_price_share |-> s.dynamic_share,
      start_hour |-> s.start_hour,
      end_hour |-> s.end_hour,
      charging_window_hours |-> s.charging_window_hours,
      existing_site_peak_kw |-> s.existing_peak_kw,
      charger_power_per_truck_kw |-> s.charger_power_kw,
      site_capacity_limit_kva |-> s.site_capacity_kva,
      ev_consumption_kwh_per_km |-> s.ev_consumption,
      diesel_price_eur_per_l |-> s.diesel_price,
      diesel_l_per_100km |-> s.diesel_l_per_100,
      toll_rate_eur_per_km |-> s.toll_rate,
      tolled_share_0_1 |-> s.tolled_share,
      ev_toll_exempt |-> s.ev_toll_exempt,
      desired_peak_limit_kw |-> s.desired_peak_limit_kw,
      peak_duration_h |-> s.peak_duration_h ]

\* faulty variant: the button is ignored
RecalcOnFirstRunOnly(model_results, run_button) == model_results = None

\* if model_results is None: recalc ...  if run_button: recalc ...
RecalcNeeded(model_results, run_button) == model_results = None \/ run_button

IsNone(x) == "none" \in DOMAIN x

\* Python truthiness of a dict-or-None value
Truthy(x) == ~IsNone(x) /\ DOMAIN x # {}

(***************************************************************************)
(* call_gemini_assistant.  What the environment answers is a record:      *)
(*   api_key      the key is configured                                   *)
(*   post_raises  requests.post raises (network failure, timeout)         *)
(*   status_code  the HTTP status                                         *)
(*   body_is_json resp.json() can decode the body                         *)
(*   text         what the candidates' parts join to: "" (none), "prose"  *)
(*                (not JSON), "scalar" (JSON, not an object), "object"    *)
(*   obj          the decoded object: reply, update_inputs, show_payload  *)
(* The value is [raised, out, payload]: raised is None or the exception   *)
(* that leaves the function, out the returned dict, payload what was      *)
(* stored in st.session_state["last_gemini_payload"] (None: nothing).     *)
(***************************************************************************)
REPLY_MISSING_KEY == "GEMINI_API_KEY is missing."
REPLY_REQUEST_FAILED == "Gemini request failed: ..."
REPLY_HTTP_ERROR == "Gemini error ...: ..."
REPLY_NO_TEXT == "Gemini returned no text."
PAYLOAD == [ model |-> "gemini-2.5-flash-lite" ]

\* faulty variant: a failure reply carries an input update
FailureWithUpdate(reply) ==
    [ reply |-> reply, update_inputs |-> [ num_trucks |-> <<1, 1>> ], show_payload |-> FALSE ]

Failure(reply) == [ reply |-> reply, update_inputs |-> None, show_payload |-> FALSE ]

\* {k: v for k, v in upd.items() if k in ALLOWED_INPUT_KEYS}
AllowedOnly(upd) == [ k \in DOMAIN upd \cap ALLOWED_INPUT_KEYS |-> upd[k] ]

\* data = resp.json() stands outside every try block
BodyDecodeRaises(r) == ~r.body_is_json

call_gemini_assistant(r) ==
    IF ~r.api_key
    THEN [ raised |-> None, out |-> Failure(REPLY_MISSING_KEY), payload |-> None ]
    ELSE IF r.post_raises
    THEN [ raised |-> None, out |-> Failure(REPLY_REQUEST_FAILED), payload |-> PAYLOAD ]
    ELSE IF r.status_code >= 300
    THEN [ raised |-> None, out |-> Failure(REPLY_HTTP_ERROR), payload |-> PAYLOAD ]
    ELSE IF BodyDecodeRaises(r)
    THEN [ raised |-> [ error |-> "JSONDecodeError" ], out |-> None, payload |-> PAYLOAD ]
    ELSE IF r.text = ""
    THEN [ raised |-> None, out |-> Failure(REPLY_NO_TEXT), payload |-> PAYLOAD ]
    ELSE IF r.text = "prose"
    THEN \* json.loads fails: the raw text is the reply
         [ raised |-> None, out |-> Failure(r.text), payload |-> PAYLOAD ]
    ELSE IF r.text = "scalar"
    THEN \* obj.get on a number, string, list, true, false or null
         [ raised |-> [ error |-> "AttributeError" ], out |-> None, payload |-> PAYLOAD ]
    ELSE [ raised |-> None,
           out |-> [ reply |-> IF r.obj.reply = "" THEN "OK." ELSE r.obj.reply,
                     update_inputs |-> IF IsNone(r.obj.update_inputs)
                                       THEN None
                                       ELSE AllowedOnly(r.obj.update_inputs),
                     show_payload |-> r.obj.show_payload ],
           payload |-> PAYLOAD ]

(***************************************************************************)
(* SpecApp: the script runs of one browser session.  Every user event     *)
(* (a widget changed, a button clicked, a chat message submitted) runs    *)
(* the script from the top; pc is "start" before the first run, "shown"   *)
(* when a run has rendered the page and "crashed" when a run ended with   *)
(* an exception.  args keeps the arguments of the last run_model call and *)
(* prev the event of the last run: [event, response, call].               *)
(***************************************************************************)
GREETING == [ role |-> "assistant", content |-> "Hi - I'm FleetMate. ..." ]
MSG_ASK == "set num_trucks to 1"
MSG_PAYLOAD == "show me the payload"
REPLY_PAYLOAD == "Here is the exact JSON payload I last sent to Gemini:"
REPLY_NO_PAYLOAD == "No payload stored yet (ask something first)."
REPLY_RUN_FIRST == "Run the calculation first so I have results to work with."
REPLY_UPDATED == "Updated inputs and recalculated the results."
REPLY_USED_PAYLOAD == "Here is the JSON request payload I used."

\* the values the user gives the two sidebar widgets that vary here
WidgetValues ==
    [ num_trucks |-> { R(n) : n \in 1 .. MaxTrucks } \cup { R(10) },
      site_capacity_kva |-> { R(200), R(630) } ]

\* the JSON string "ten": a value json.loads accepts and int() rejects
TEN_IN_WORDS == <<"ten">>

OK_RESPONSE ==
    [ api_key |-> TRUE, post_raises |-> FALSE, status_code |-> 200,
      body_is_json |-> TRUE, text |-> "object",
      obj |-> [ reply |-> "10 trucks need 4 MWh a day.",
                update_inputs |-> None, show_payload |-> FALSE ] ]

Responses ==
    { OK_RESPONSE,
      [ OK_RESPONSE EXCEPT !.api_key = FALSE ],
      [ OK_RESPONSE EXCEPT !.post_raises = TRUE ],
      [ OK_RESPONSE EXCEPT !.status_code = 500 ],
      [ OK_RESPONSE EXCEPT !.body_is_json = FALSE ],
      [ OK_RESPONSE EXCEPT !.text = "" ],
      [ OK_RESPONSE EXCEPT !.text = "prose" ],
      [ OK_RESPONSE EXCEPT !.text = "scalar" ],
      [ OK_RESPONSE EXCEPT !.obj = [ reply |-> "Done.",
                                     update_inputs |-> [ num_trucks |-> R(1) ],
                                     show_payload |-> TRUE ] ],
      [ OK_RESPONSE EXCEPT !.obj = [ reply |-> "",
                                     update_inputs |-> [ site_capacity_kva |-> R(200),
                                                         model_results |-> None ],
                                     show_payload |-> FALSE ] ],
      [ OK_RESPONSE EXCEPT !.obj = [ reply |-> "Set to ten trucks.",
                                     update_inputs |-> [ num_trucks |-> TEN_IN_WORDS ],
                                     show_payload |-> FALSE ] ] }

\* run_model on the arguments the sessions of SpecApp give, evaluated once
\* with the module-level lists as defined (no action of SpecApp writes them)
AppArgs ==
    { RecalcArgs([ WidgetDefaults EXCEPT !.num_trucks = n, !.site_capacity_kva = l ]) :
        n \in WidgetValues.num_trucks, l \in WidgetValues.site_capacity_kva }

AppModelTable == [ a \in AppArgs |-> run_model(LITERAL_GLOBALS, a) ]

ValueError == [ error |-> "ValueError" ]
Raised(x) == "error" \in DOMAIN x

\* run_model, "num_trucks = max(1, int(num_trucks))": int() of a string that
\* spells no number raises ValueError (numbers are pairs <<n, d>>)
IntRaises(x) == Len(x) # 2

\* recalc_from_state: the new st.session_state["model_results"], or the
\* exception that leaves run_model before the assignment
recalc_from_state(s) ==
    IF IntRaises(s.num_trucks) THEN ValueError ELSE AppModelTable[RecalcArgs(s)]

NoCall == [ event |-> "none", response |-> None, call |-> None ]
Event(e) == [ NoCall EXCEPT !.event = e ]

\* app.py 474-535: the rest of a script run that displays the model result res
ShowResults(s, res, a) ==
    IF Raised(res)
    THEN \* recalc_from_state raised (app.py 468-472): the run ends there
         /\ session' = s
         /\ pc' = "crashed"
         /\ UNCHANGED <<args, profile, results, issues, solutions, globals, returned>>
    ELSE /\ session' = s
         /\ results' = res
         /\ args' = a
         /\ issues' = detect_issues(res)
         /\ solutions' = generate_solution_set(res, detect_issues(res))
         /\ pc' = "shown"
         /\ UNCHANGED <<profile, globals, returned>>

\* app.py 420-535: one run of the script with session s, the model result
\* mr and last arguments a it starts from
ScriptRun(s, mr, a, run_button) ==
    ShowResults(s,
                IF RecalcNeeded(mr, run_button) THEN recalc_from_state(s) ELSE mr,
                IF RecalcNeeded(mr, run_button) THEN RecalcArgs(s) ELSE a)

\* the first script run of the session
FirstScriptRun ==
    /\ pc = "start"
    /\ ScriptRun(WidgetDefaults, results, args, FALSE)
    /\ assistant_messages' = <<GREETING>>
    /\ prev' = Event("first_run")

\* the user changes a sidebar widget: the widget's key takes the new value
\* and the script reruns
ChangeInput ==
    /\ pc # "start"
    /\ \E k \in DOMAIN WidgetValues :
         \E v \in WidgetValues[k] \ { session[k] } :
            ScriptRun([ session EXCEPT ![k] = v ], results, args, FALSE)
    /\ prev' = Event("input_change")
    /\ UNCHANGED assistant_messages

\* the user clicks "Run calculation"
ClickRunCalculation ==
    /\ pc # "start"
    /\ ScriptRun(session, results, args, TRUE)
    /\ prev' = Event("run_click")
    /\ UNCHANGED assistant_messages

\* the floating button opens the dialog, its close button closes it; both
\* end with st.rerun()
ToggleAssistant ==
    /\ pc # "start"
    /\ ScriptRun([ session EXCEPT !.assistant_is_open = ~@ ], results, args, FALSE)
    /\ prev' = Event("toggle_assistant")
    /\ UNCHANGED assistant_messages

\* the session after "for k, v in out["update_inputs"].items(): st.session_state[k] = v"
WriteInputs(s, upd) ==
    [ k \in DOMAIN s \cup DOMAIN upd |-> IF k \in DOMAIN upd THEN upd[k] ELSE s[k] ]

\* assistant_dialog from the appended reply on (app.py 889-902): c is what
\* call_gemini_assistant returned, s2 the session after the keys of
\* update_inputs were written, msgs2 the chat with the reply and rec what
\* recalc_from_state gives on s2
AfterCall(r, c, s2, mr, a, msgs2, rec) ==
    LET say(m, text) == Append(m, [ role |-> "assistant", content |-> text ])
        updates == Truthy(c.out.update_inputs)
        msgs3 == IF updates THEN say(msgs2, REPLY_UPDATED) ELSE msgs2
        msgs4 == IF c.out.show_payload /\ ~IsNone(s2.last_gemini_payload)
                 THEN say(msgs3, REPLY_USED_PAYLOAD) ELSE msgs3
        e == [ event |-> "assistant", response |-> r, call |-> c ]
    IN  IF updates /\ Raised(rec)
        THEN \* the keys are written, recalc_from_state raised at line 894
             [ raised |-> rec, session |-> s2, model_results |-> mr, args |-> a,
               msgs |-> msgs2, event |-> e ]
        ELSE [ raised |-> None,
               session |-> s2,
               model_results |-> IF updates THEN rec ELSE mr,
               args |-> IF updates THEN RecalcArgs(s2) ELSE a,
               msgs |-> msgs4,
               event |-> e ]

\* assistant_dialog with a submitted chat message (app.py 873-902), up to
\* its st.rerun(): the session, model result, last arguments and chat it
\* leaves, and the exception it ends with (None: none)
assistant_dialog(s, mr, a, msgs, user_msg, r) ==
    LET msgs1 == Append(msgs, [ role |-> "user", content |-> user_msg ])
        say(m, text) == Append(m, [ role |-> "assistant", content |-> text ])
        c == call_gemini_assistant(r)
        s1 == IF IsNone(c.payload) THEN s ELSE [ s EXCEPT !.last_gemini_payload = c.payload ]
        updates == Truthy(c.out.update_inputs)
        s2 == IF updates THEN WriteInputs(s1, c.out.update_inputs) ELSE s1
        msgs2 == say(msgs1, c.out.reply)
        unchanged == [ raised |-> None, session |-> s, model_results |-> mr, args |-> a,
                       msgs |-> msgs1, event |-> Event("payload_request") ]
    IN  IF user_msg = MSG_PAYLOAD
        THEN [ unchanged EXCEPT
                 !.msgs = say(msgs1, IF IsNone(s.last_gemini_payload)
                                     THEN REPLY_NO_PAYLOAD ELSE REPLY_PAYLOAD) ]
        ELSE IF mr = None
        THEN [ unchanged EXCEPT !.msgs = say(msgs1, REPLY_RUN_FIRST),
                                !.event = Event("no_results") ]
        ELSE IF ~IsNone(c.raised)
        THEN [ unchanged EXCEPT !.raised = c.raised,
                                !.session = s1,
                                !.event = [ event |-> "assistant", response |-> r, call |-> c ] ]
        ELSE AfterCall(r, c, s2, mr, a, msgs2,
                       IF updates THEN recalc_from_state(s2) ELSE mr)

\* what follows the dialog d: the script run st.rerun() starts, or the end of
\* the run with the exception.  An exception leaving call_gemini_assistant
\* or recalc_from_state is not caught in assistant_dialog; the handler around the dialog (app.py
\* 910-916) calls assistant_dialog a second time, whose widgets repeat the
\* keys of the first call, so the run ends with an exception either way.
AfterDialog(d) ==
    /\ assistant_messages' = d.msgs
    /\ prev' = d.event
    /\ IF IsNone(d.raised)
       THEN ScriptRun(d.session, d.model_results, d.args, FALSE)
       ELSE /\ session' = d.session
            /\ pc' = "crashed"
            /\ UNCHANGED <<args, profile, results, issues, solutions, globals, returned>>

SubmitMessage ==
    /\ pc # "start"
    /\ session.assistant_is_open
    /\ Len(assistant_messages) < MaxMessages
    /\ \E user_msg \in { MSG_ASK, MSG_PAYLOAD } :
       \E r \in Responses :
          AfterDialog(assistant_dialog(session, results, args, assistant_messages, user_msg, r))

InitApp ==
    /\ pc = "start"
    /\ args = None
    /\ profile = None
    /\ results = None
    /\ issues = << >>
    /\ solutions = << >>
    /\ prev = NoCall
    /\ globals = LITERAL_GLOBALS
    /\ returned = << >>
    /\ session = None
    /\ assistant_messages = << >>

NextApp ==
    \/ FirstScriptRun
    \/ ChangeInput
    \/ ClickRunCalculation
    \/ ToggleAssistant
    \/ SubmitMessage

SpecApp == InitApp /\ [][NextApp]_vars

(***************************************************************************)
(* SpecRepeat: the three core functions called again and again, on the    *)
(* same and on different arguments, while the session state changes       *)
(* between the calls.  returned logs every call: the function, its        *)
(* input, its output and the session state at the time of the call.       *)
(***************************************************************************)
MaxCalls == 7

RepeatArgs ==
    { [ DefaultArgs EXCEPT !.num_trucks = R(n), !.site_capacity_limit_kva = l ] :
        n \in 1 .. MaxTrucks, l \in { R(200), R(450) } }

Call(fn, input, output) ==
    [ fn |-> fn, input |-> input, output |-> output, session |-> session ]

LoggedRunModel ==
    /\ Len(returned) < MaxCalls
    /\ RunModelStep(RepeatArgs)
    /\ returned' = Append(returned, Call("run_model", args', results'))

LoggedDetectIssues ==
    /\ Len(returned) < MaxCalls
    /\ DetectIssuesStep
    /\ returned' = Append(returned, Call("detect_issues", results, issues'))

LoggedGenerateSolutionSet ==
    /\ Len(returned) < MaxCalls
    /\ GenerateSolutionSetStep
    /\ returned' =
          Append(returned, Call("generate_solution_set",
                                [ results |-> results, issues |-> issues ], solutions'))

\* something else writes st.session_state between two calls
SessionWrite ==
    /\ pc = "idle"
    /\ session' \in { None, WidgetDefaults } \ { session }
    /\ UNCHANGED <<pc, args, profile, results, issues, solutions, prev,
                   globals, returned, assistant_messages>>

InitRepeat ==
    /\ pc = "idle"
    /\ args = DefaultArgs
    /\ profile = None
    /\ results = None
    /\ issues = << >>
    /\ solutions = << >>
    /\ prev = None
    /\ globals = LITERAL_GLOBALS
    /\ returned = << >>
    /\ session = None
    /\ assistant_messages = << >>

NextRepeat ==
    \/ LoggedRunModel
    \/ LoggedDetectIssues
    \/ LoggedGenerateSolutionSet
    \/ SessionWrite

SpecRepeat == InitRepeat /\ [][NextRepeat]_vars

(***************************************************************************)
(* Properties.                                                             *)
(***************************************************************************)
Titles(sols) == [ k \in 1 .. Len(sols) |-> sols[k].title ]

\* generate_solution_set has returned (SpecRank), resp. results, issues and
\* solutions belong to the same evaluation (Spec)
Ranked == pc = "idle" /\ results # None
\* detect_issues has run on the current results
Detected == pc \in {"issues", "idle"} /\ results # None
ProfileDone == pc = "profile_done"

\* the issues a candidate is applicable to (SolutionRanker, section 4.7; the
\* charger-power candidate by its condition in the code)
ApplicableIssues(title) ==
    CASE title = SMART_CHARGING -> {"capacity_exceeded", "high_peak_concentration"}
      [] title = BATTERY_STORAGE -> {"capacity_exceeded", "high_peak_concentration"}
      [] title = REDUCE_CHARGER_POWER -> {"capacity_exceeded", "high_peak_concentration"}
      [] title = GRID_UPGRADE -> {"capacity_exceeded"}
      [] title = SHIFT_CHARGING -> {"negative_business_case"}

\* C1: generate_solution_set never returns a solution whose applicable-issue
\* set has no element among the fired issue ids.
C1_OnlyApplicableSolutions ==
    Ranked =>
        \A k \in 1 .. Len(solutions) :
            ApplicableIssues(solutions[k].title) \cap IssueIds(issues) # {}

\* C2: when the issue list passed to generate_solution_set is empty, the
\* returned solution list is empty.
C2_NoIssuesNoSolutions ==
    (Ranked /\ issues = << >>) => solutions = << >>

\* C3: generate_solution_set returns at most 3 solutions.
C3_AtMostThree ==
    Ranked => Len(solutions) <= 3

\* C3 witness: five candidates were emitted and three returned.
C3_Witness ==
    /\ Ranked
    /\ "capacity_exceeded" \in IssueIds(issues)
    /\ Len(solutions) = 3

\* C4: when the fired issues are exactly {negative_business_case},
\* generate_solution_set returns only the shift-charging solution and never
\* the grid/transformer upgrade.
C4_NegativeCaseOnlyShift ==
    (Ranked /\ IssueIds(issues) = {"negative_business_case"}) =>
        /\ Titles(solutions) = <<SHIFT_CHARGING>>
        /\ \A k \in 1 .. Len(solutions) : solutions[k].title # GRID_UPGRADE

\* C4 witness: savings negative, capacity fine, one issue, one solution.
C4_Witness ==
    /\ Ranked
    /\ RLt(results.diesel_vs_ev.total_savings_incl_toll_eur, R(0))
    /\ results.load.capacity_ok
    /\ issues = <<NEGATIVE_BUSINESS_CASE>>
    /\ Len(solutions) = 1

\* the three rules of the issue detector, stated on the numerators and
\* denominators of the result's values
RuleCapacityExceeded(res) == res.load.capacity_ok = FALSE
RuleHighPeak(res) ==
    LET p == res.load.new_theoretical_peak_kw
        v == res.load.new_avg_load_kw
    IN  2 * p[1] * v[2] > 3 * v[1] * p[2]
RuleNegativeCase(res) == res.diesel_vs_ev.total_savings_incl_toll_eur[1] <= 0

ExpectedIssues(res) ==
    (IF RuleCapacityExceeded(res) THEN <<CAPACITY_EXCEEDED>> ELSE << >>) \o
    (IF RuleHighPeak(res) THEN <<HIGH_PEAK_CONCENTRATION>> ELSE << >>) \o
    (IF RuleNegativeCase(res) THEN <<NEGATIVE_BUSINESS_CASE>> ELSE << >>)

\* C5: detect_issues returns exactly the sub-sequence of [capacity_exceeded,
\* high_peak_concentration, negative_business_case] whose rule holds, each
\* rule decided on its own: capacity_ok false; peak > 1.5 x average load;
\* total savings incl. toll <= 0 (zero fires).
C5_DetectIssuesExact ==
    Detected => issues = ExpectedIssues(results)

\* C5 witness: all three rules fire, the business case with savings of zero.
C5_Witness ==
    /\ Detected
    /\ results.diesel_vs_ev.total_savings_incl_toll_eur = R(0)
    /\ [ k \in 1 .. Len(issues) |-> issues[k].id ] =
           <<"capacity_exceeded", "high_peak_concentration", "negative_business_case">>

\* C6: with site_capacity_limit_kva == 0 run_model yields capacity_ok = true
\* whatever the peak, and detect_issues never reports capacity_exceeded.
C6_NoLimitNoCapacityIssue ==
    (results # None /\ results.inputs.site_capacity_limit_kva = R(0)) =>
        /\ results.load.capacity_ok
        /\ Detected => "capacity_exceeded" \notin IssueIds(issues)

\* C6 witness: no limit, a positive peak, issues detected.
C6_Witness ==
    /\ Detected
    /\ results.inputs.site_capacity_limit_kva = R(0)
    /\ results.load.new_theoretical_peak_kw = R(600)

\* C7: for a fixed positive site capacity limit capacity_exceeded is absent
\* while peak <= limit and present once peak > limit, and of two evaluations
\* with the same limit and a higher peak in the second, the second reports
\* capacity_exceeded whenever the first did.
C7_CapacityExceededMonotonic ==
    Detected =>
        LET limit == results.inputs.site_capacity_limit_kva
            peak == results.load.new_theoretical_peak_kw
        IN  /\ RLt(R(0), limit) =>
                ("capacity_exceeded" \in IssueIds(issues) <=> RLt(limit, peak))
            /\ ( /\ prev # None
                 /\ RLt(R(0), limit)
                 /\ prev.site_capacity_limit_kva = limit
                 /\ RLt(prev.new_theoretical_peak_kw, peak)
                 /\ "capacity_exceeded" \in prev.issue_ids )
               => "capacity_exceeded" \in IssueIds(issues)

\* C7 witness: the peak rose from above the limit to further above it.
C7_Witness ==
    /\ Detected
    /\ prev # None
    /\ RLt(R(0), prev.site_capacity_limit_kva)
    /\ prev.site_capacity_limit_kva = results.inputs.site_capacity_limit_kva
    /\ RLt(prev.new_theoretical_peak_kw, results.load.new_theoretical_peak_kw)
    /\ "capacity_exceeded" \in prev.issue_ids
    /\ "capacity_exceeded" \in IssueIds(issues)

\* C8: compute_flags_and_shares(s, s) flags all 24 hours and gives every
\* hour the share 1/24.
C8_FullDayWhenStartEqualsEnd ==
    (ProfileDone /\ args.start_hour = args.end_hour) =>
        \A h \in HOURS : profile.flags[h] = 1 /\ profile.shares[h] = <<1, 24>>

\* C8 witness: the call with start = end = 7 has returned.
C8_Witness ==
    /\ ProfileDone
    /\ args.start_hour = 7
    /\ args.end_hour = 7
    /\ profile.flags[0] = 1

\* C9: the shares sum to 1 whenever at least one hour is flagged and to 0
\* otherwise, and every unflagged hour has share 0.
C9_SharesSumToOne ==
    ProfileDone =>
        /\ RSumTo(profile.shares, 23) =
               (IF \E h \in HOURS : profile.flags[h] = 1 THEN R(1) ELSE R(0))
        /\ \A h \in HOURS : profile.flags[h] = 0 => profile.shares[h] = R(0)

\* C9 witness: a window over midnight with flagged and unflagged hours.
C9_Witness ==
    /\ ProfileDone
    /\ args.start_hour = 22
    /\ args.end_hour = 6
    /\ profile.flags[23] = 1
    /\ profile.flags[12] = 0

\* h lies in the circular half-open interval [s, e)
InWindow(s, e, h) == IF s < e THEN s <= h /\ h < e ELSE h >= s \/ h < e

\* C10: for start # end hour h is flagged iff it lies in the circular
\* half-open interval [start, end); the number of flagged hours is
\* (end - start) mod 24, each flagged hour has the share 1/that number and
\* the others 0; 14 hours for start = 6, end = 20.
C10_CircularWindow ==
    (ProfileDone /\ args.start_hour # args.end_hour) =>
        LET s == args.start_hour
            e == args.end_hour
            n == ISumTo(profile.flags, 23)
        IN  /\ \A h \in HOURS : profile.flags[h] = 1 <=> InWindow(s, e, h)
            /\ \A h \in HOURS : profile.flags[h] \in {0, 1}
            /\ n = (e - s) % 24
            /\ \A h \in HOURS :
                   profile.shares[h] = IF InWindow(s, e, h) THEN <<1, n>> ELSE <<0, 1>>
            /\ (s = 6 /\ e = 20) => n = 14

\* C10 witness: the window 6..20 with its 14 flagged hours.
C10_Witness ==
    /\ ProfileDone
    /\ args.start_hour = 6
    /\ args.end_hour = 20
    /\ ISumTo(profile.flags, 23) = 14
    /\ profile.shares[6] = <<1, 14>>
    /\ profile.shares[20] = <<0, 1>>

\* the state right after a call of run_model returned
Modelled == pc = "model" /\ results # None

\* C11: for every input run_model's soc_diff is >= 0, and when target_soc is
\* below start_soc it is exactly 0 and the energy per event, the daily
\* energy, the annual energy and the annual EV cost are all 0.
C11_SocDiffNeverNegative ==
    (Modelled /\ results # ZeroDivisionError) =>
        /\ RLe(R(0), results.energy_cost.soc_diff)
        /\ RLt(args.target_soc, args.start_soc) =>
              /\ results.energy_cost.soc_diff = R(0)
              /\ results.energy_cost.energy_per_event_mwh = R(0)
              /\ results.energy_cost.total_daily_energy_mwh = R(0)
              /\ results.energy_cost.annual_energy_mwh = R(0)
              /\ results.energy_cost.annual_cost_eur = R(0)

C11_Witness ==
    /\ Modelled
    /\ args.target_soc = Q(1, 2)
    /\ args.start_soc = R(1)
    /\ args.battery_kwh = R(500)
    /\ args.num_trucks = R(MaxTrucks)
    /\ results.energy_cost.soc_diff = R(0)
    /\ results.energy_cost.annual_cost_eur = R(0)

\* C12: holding the other inputs fixed, for every integer fleet size n >= 1
\* the daily energy, the annual cost and the total charge power equal n times
\* their values at fleet size 1.
C12_LinearInFleetSize ==
    (Modelled /\ args.num_trucks[2] = 1 /\ args.num_trucks[1] >= 1) =>
        LET n == args.num_trucks[1]
            one == run_model(globals, [ args EXCEPT !.num_trucks = R(1) ])
        IN  /\ results # ZeroDivisionError
            /\ results.energy_cost.total_daily_energy_mwh =
                  RMul(R(n), one.energy_cost.total_daily_energy_mwh)
            /\ results.energy_cost.annual_cost_eur =
                  RMul(R(n), one.energy_cost.annual_cost_eur)
            /\ results.load.total_charge_power_kw =
                  RMul(R(n), one.load.total_charge_power_kw)

C12_Witness ==
    /\ Modelled
    /\ args.num_trucks = R(MaxTrucks)
    /\ args.battery_kwh = R(500)
    /\ args.start_soc = Q(2, 10)
    /\ args.target_soc = R(1)
    /\ args.charger_power_per_truck_kw = R(150)
    /\ results.load.total_charge_power_kw = R(MaxTrucks * 150)
    /\ RLt(R(0), results.energy_cost.annual_cost_eur)

\* C13: energy per event = battery_kwh x max(0, target_soc - start_soc) and
\* daily energy = fleet size x events per truck per day x energy per event,
\* on the clamped inputs; fleet 10, 500 kWh, SoC 0.2 -> 1.0 and 1 event a day
\* give 400 kWh per event and 4 MWh per day.
C13_EnergyFormulas ==
    (Modelled /\ results # ZeroDivisionError) =>
        LET i == results.inputs
            e == results.energy_cost
            diff == RSub(i.target_soc, i.start_soc)
            per_event_kwh == RMul(i.battery_kwh, IF RLt(diff, R(0)) THEN R(0) ELSE diff)
        IN  /\ RMul(e.energy_per_event_mwh, R(1000)) = per_event_kwh
            /\ e.total_daily_energy_mwh =
                  RMul(R(i.num_trucks), RMul(i.events_per_truck_per_day, e.energy_per_event_mwh))
            /\ args = DefaultArgs =>
                  /\ RMul(e.energy_per_event_mwh, R(1000)) = R(400)
                  /\ RMul(e.total_daily_energy_mwh, R(1000)) = R(4000)
                  /\ e.total_daily_energy_mwh = R(4)

C13_Witness ==
    /\ Modelled
    /\ args = DefaultArgs
    /\ results.inputs.num_trucks = 10
    /\ results.energy_cost.energy_per_event_mwh = Q(4, 10)
    /\ results.energy_cost.total_daily_energy_mwh = R(4)

\* C15: for every input every divisor run_model uses is strictly positive
\* after clamping (fleet size >= 1, EV consumption >= 0.01, window hours >=
\* 0.1, at least one flagged hour, curve average > 0), so no division by
\* zero happens and a result is produced.
C15_RunModelTotal ==
    Modelled =>
        /\ results # ZeroDivisionError
        /\ results.inputs.num_trucks >= 1
        /\ RLe(Q(1, 100), results.inputs.ev_consumption_kwh_per_km)
        /\ RLe(Q(1, 10), results.inputs.charging_window_hours)
        /\ results.charging_profile.charging_hours_by_clock >= 1
        /\ RLt(R(0), RDiv(RSumTo(results.charging_profile.tou_price_eur_per_kwh, 23), R(24)))

C15_Witness ==
    /\ Modelled
    /\ args.num_trucks = R(0)
    /\ args.ev_consumption_kwh_per_km = R(0)
    /\ args.charging_window_hours = R(0)
    /\ results # ZeroDivisionError
    /\ results.inputs.num_trucks = 1
    /\ results.inputs.ev_consumption_kwh_per_km = Q(1, 100)
    /\ results.inputs.charging_window_hours = Q(1, 10)
    /\ results.distance.km_per_truck_per_day = R(40000)

\* C16: every numeric input echoed in run_model's result is at or above its
\* minimum, the electricity price, existing site peak, charger power, site
\* capacity limit, diesel price, diesel consumption and toll rate included.
C16_EveryInputClamped ==
    (Modelled /\ results # ZeroDivisionError) =>
        LET i == results.inputs
        IN  /\ i.num_trucks >= 1
            /\ i.operating_days >= 1
            /\ RLe(R(0), i.events_per_truck_per_day)
            /\ RLe(R(0), i.battery_kwh)
            /\ RLe(R(0), i.start_soc) /\ RLe(i.start_soc, R(1))
            /\ RLe(R(0), i.target_soc) /\ RLe(i.target_soc, R(1))
            /\ RLe(Q(1, 100), i.ev_consumption_kwh_per_km)
            /\ RLe(Q(1, 10), i.charging_window_hours)
            /\ RLe(R(0), i.dynamic_price_share) /\ RLe(i.dynamic_price_share, R(1))
            /\ RLe(R(0), i.tolled_share_0_1) /\ RLe(i.tolled_share_0_1, R(1))
            /\ i.start_hour \in HOURS
            /\ i.end_hour \in HOURS
            /\ RLe(R(0), i.desired_peak_limit_kw)
            /\ RLe(R(0), i.peak_duration_h)
            /\ RLe(R(0), i.avg_elec_price_eur_per_mwh)
            /\ RLe(R(0), i.existing_site_peak_kw)
            /\ RLe(R(0), i.charger_power_per_truck_kw)
            /\ RLe(R(0), i.site_capacity_limit_kva)
            /\ RLe(R(0), i.diesel_price_eur_per_l)
            /\ RLe(R(0), i.diesel_l_per_100km)
            /\ RLe(R(0), i.toll_rate_eur_per_km)

\* position of the solution titled t in the list s (0 when absent)
PositionOf(s, t) ==
    IF \E k \in 1 .. Len(s) : s[k].title = t
    THEN CHOOSE k \in 1 .. Len(s) : s[k].title = t
    ELSE 0

\* C20: generate_solution_set returns the emitted candidates ordered by
\* rank_score descending, candidates of equal score in their definition
\* order, truncated to the first 3.
C20_TopThreeByScore ==
    Ranked =>
        LET em == EmittedSolutions(results, issues)
            \* a comes before b in the final order
            Before(a, b) ==
                \/ a.rank_score > b.rank_score
                \/ a.rank_score = b.rank_score
                     /\ PositionOf(em, a.title) < PositionOf(em, b.title)
        IN  /\ Len(solutions) = IF Len(em) < 3 THEN Len(em) ELSE 3
            /\ \A k \in 1 .. Len(solutions) : PositionOf(em, solutions[k].title) > 0
            /\ \A k \in 1 .. Len(solutions) :
                  solutions[k] = em[PositionOf(em, solutions[k].title)]
            /\ \A j, k \in 1 .. Len(solutions) : j < k => Before(solutions[j], solutions[k])
            /\ \A k \in 1 .. Len(em) :
                  PositionOf(solutions, em[k].title) = 0 =>
                      \A j \in 1 .. Len(solutions) : Before(solutions[j], em[k])

C20_Witness ==
    /\ Ranked
    /\ Len(EmittedSolutions(results, issues)) = 5
    /\ EmittedSolutions(results, issues)[5].title = SHIFT_CHARGING
    /\ Titles(solutions) = <<SHIFT_CHARGING, SMART_CHARGING, BATTERY_STORAGE>>

\* a script run has rendered the page
Shown == pc = "shown"

\* the failures of the assistant call: missing API key, network exception,
\* HTTP status >= 300, body that is not JSON, response without text, reply
\* that is not valid JSON
FailedResponse(r) ==
    \/ ~r.api_key
    \/ r.post_raises
    \/ r.status_code >= 300
    \/ ~r.body_is_json
    \/ r.text = ""
    \/ r.text = "prose"

\* the replies that say what failed
ErrorReplies == { REPLY_MISSING_KEY, REPLY_REQUEST_FAILED, REPLY_HTTP_ERROR, REPLY_NO_TEXT }

\* C18: every failure of the assistant call reaches the caller as a value
\* that differs from a successful answer, never as an uncaught exception,
\* and leaves the model result as it was computed.
C18_AssistantFailuresSurfaced ==
    (prev.event = "assistant" /\ FailedResponse(prev.response)) =>
        /\ pc # "crashed"
        /\ IsNone(prev.call.raised)
        /\ prev.call.out.reply \in ErrorReplies
        /\ IsNone(prev.call.out.update_inputs)
        /\ results = AppModelTable[args]

\* C19 as stated: in every script run the issues and solutions shown come
\* from a model result computed from the current input values.
C19_NeverStale ==
    Shown =>
        /\ results = recalc_from_state(session)
        /\ issues = detect_issues(results)
        /\ solutions = generate_solution_set(results, issues)

\* the events whose handling recalculates the model result
Recalculates(e) ==
    \/ e.event \in { "first_run", "run_click" }
    \/ e.event = "assistant" /\ IsNone(e.call.raised) /\ Truthy(e.call.out.update_inputs)

\* C19, amended: in every script run the issues and solutions shown are
\* computed in that run from the session's model result, which was computed
\* from the input values of the last recalculation; a first run, a click on
\* "Run calculation" and an assistant update recalculate, so after these
\* the result is the one of the current input values.
C19_FreshAsOfLastRecalculation ==
    Shown =>
        /\ results = AppModelTable[args]
        /\ issues = detect_issues(results)
        /\ solutions = generate_solution_set(results, issues)
        /\ Recalculates(prev) => args = RecalcArgs(session)

C19_Witness ==
    /\ Shown
    /\ prev.event = "input_change"
    /\ session.num_trucks = R(1)
    /\ args = RecalcArgs(WidgetDefaults)
    /\ "capacity_exceeded" \in IssueIds(issues)
    /\ "capacity_exceeded" \notin IssueIds(detect_issues(recalc_from_state(session)))

Returned(t) ==
    IF \E k \in 1 .. Len(solutions) : solutions[k].title = t
    THEN solutions[PositionOf(solutions, t)]
    ELSE None

IsReturned(t) == \E k \in 1 .. Len(solutions) : solutions[k].title = t

\* the score the smart-charging candidate is said to get: +40 when an
\* overload is present, +30 when the charging window is >= 8 h, +20 when the
\* overload ratio (peak - limit) / limit is < 30%, +10 flat
SmartChargingScore(res) ==
    LET load == res.load
        limit == res.inputs.site_capacity_limit_kva
        overload == ~load.capacity_ok
        flexible == RLe(R(8), res.inputs.charging_window_hours)
        small == /\ RLt(R(0), limit)
                 /\ RLt(RDiv(RSub(load.new_theoretical_peak_kw, limit), limit), Q(3, 10))
    IN  (IF overload THEN 40 ELSE 0) + (IF flexible THEN 30 ELSE 0)
          + (IF small THEN 20 ELSE 0) + 10

\* C21: the smart-charging candidate's rank_score is computed from the
\* result: +40 overload present, +30 window >= 8 h, +20 overload ratio below
\* 30%, +10 flat.
C21_SmartChargingScoreComputed ==
    (Ranked /\ IsReturned(SMART_CHARGING)) =>
        Returned(SMART_CHARGING).rank_score = SmartChargingScore(results)

\* C22: the smart-charging solution's required peak reduction (kW) equals
\* max(0, new theoretical peak - site capacity limit), to one decimal, and is
\* never negative, whatever desired peak limit is configured.
C22_PeakReductionFromCapacityLimit ==
    (Ranked /\ IsReturned(SMART_CHARGING)) =>
        LET q == Returned(SMART_CHARGING).quantitative
            over == RSub(results.load.new_theoretical_peak_kw,
                         results.inputs.site_capacity_limit_kva)
        IN  /\ RLe(R(0), q.peak_reduction_kw)
            /\ q.peak_reduction_kw = Round1(IF RLt(over, R(0)) THEN R(0) ELSE over)

\* C23: the shift-charging solution's quantitative record reports the 5
\* cheapest TOU hours and the 5 lowest-CO2 hours (ascending, ties by lower
\* hour) and, for each set, how many of them the charging window flags.
C23_ShiftChargingReportsTopFive ==
    (Ranked /\ IsReturned(SHIFT_CHARGING)) =>
        LET q == Returned(SHIFT_CHARGING).quantitative
        IN  /\ { "cheapest_hours", "lowest_co2_hours",
                 "covered_cheapest", "covered_co2" } \subseteq DOMAIN q
            /\ q.cheapest_hours = cheapest_hours(results)
            /\ q.lowest_co2_hours = lowest_co2_hours(results)
            /\ q.covered_cheapest = covered_cheapest(results)
            /\ q.covered_co2 = covered_co2(results)
            /\ q.covered_cheapest \in 0 .. 5
            /\ q.covered_co2 \in 0 .. 5

\* C24: generate_solution_set returns exactly one of two lists: the
\* shift-charging solution alone when neither capacity_exceeded nor
\* high_peak_concentration is among the issue ids, otherwise shift charging,
\* smart charging and battery storage in that order; the charger-power
\* reduction and the grid upgrade are never returned.
C24_OnlyTwoReturnLists ==
    Ranked =>
        /\ Titles(solutions) =
              IF IssueIds(issues) \cap {"capacity_exceeded", "high_peak_concentration"} = {}
              THEN <<SHIFT_CHARGING>>
              ELSE <<SHIFT_CHARGING, SMART_CHARGING, BATTERY_STORAGE>>
        /\ ~ IsReturned(REDUCE_CHARGER_POWER)
        /\ ~ IsReturned(GRID_UPGRADE)

\* C24 witness: only the peak-concentration issue fired, four candidates were
\* emitted and the three-element list was returned.
C24_Witness ==
    /\ Ranked
    /\ IssueIds(issues) = {"high_peak_concentration"}
    /\ Len(EmittedSolutions(results, issues)) = 4
    /\ Titles(solutions) = <<SHIFT_CHARGING, SMART_CHARGING, BATTERY_STORAGE>>
    /\ ~ IsReturned(REDUCE_CHARGER_POWER)

\* the response takes one of the handled failure paths of
\* call_gemini_assistant: missing key, request exception, HTTP status >= 300,
\* no text, text that is no JSON
HandledFailure(r) ==
    \/ ~r.api_key
    \/ r.post_raises
    \/ r.status_code >= 300
    \/ r.body_is_json /\ r.text \in { "", "prose" }

\* the step is a chat turn whose call took a handled failure path
FailedTurn == prev'.event = "assistant" /\ HandledFailure(prev'.response)

\* the chat history after the step is the one before it with more messages
ChatGrows ==
    /\ Len(assistant_messages') > Len(assistant_messages)
    /\ SubSeq(assistant_messages', 1, Len(assistant_messages)) = assistant_messages

\* C25 as stated: on every handled failure path call_gemini_assistant returns
\* update_inputs = None, so the chat turn writes no input key and does not
\* recompute: the inputs and model_results are unchanged and nothing but the
\* chat history changes.
C25_FailedTurnOnlyGrowsChat ==
    [][ FailedTurn =>
          /\ IsNone(prev'.call.out.update_inputs)
          /\ \A k \in ALLOWED_INPUT_KEYS : session'[k] = session[k]
          /\ results' = results
          /\ args' = args
          /\ session' = session
          /\ ChatGrows ]_vars

\* C25, amended: on every handled failure path call_gemini_assistant returns
\* update_inputs = None, so the chat turn writes no input key and does not
\* recompute: every input and model_results are unchanged; the chat history
\* grows by the user's message and the reply, and on every path but the
\* missing key last_gemini_payload is replaced by the request just built.
C25_FailedTurnKeepsInputsAndResult ==
    [][ FailedTurn =>
          /\ IsNone(prev'.call.out.update_inputs)
          /\ \A k \in ALLOWED_INPUT_KEYS : session'[k] = session[k]
          /\ results' = results
          /\ args' = args
          /\ \A k \in DOMAIN session \ { "last_gemini_payload" } : session'[k] = session[k]
          /\ session'.last_gemini_payload =
                IF prev'.response.api_key THEN PAYLOAD ELSE session.last_gemini_payload
          /\ ChatGrows
          /\ Len(assistant_messages') = Len(assistant_messages) + 2
          /\ assistant_messages'[Len(assistant_messages')] =
                [ role |-> "assistant", content |-> prev'.call.out.reply ] ]_vars

\* C25 witness: the request failed in a chat turn that followed an input
\* change; the inputs and the result of the default inputs are still there.
C25_Witness ==
    /\ Shown
    /\ prev.event = "assistant"
    /\ prev.response.post_raises
    /\ session.num_trucks = R(1)
    /\ args = RecalcArgs(WidgetDefaults)
    /\ results = AppModelTable[args]
    /\ session.last_gemini_payload = PAYLOAD
    /\ Len(assistant_messages) = 3
    /\ assistant_messages[3].content = REPLY_REQUEST_FAILED

\* the last chat turn wrote at least one key of update_inputs
AssistantUpdate ==
    /\ prev.event = "assistant"
    /\ IsNone(prev.call.raised)
    /\ Truthy(prev.call.out.update_inputs)

\* C26: every key assistant_dialog writes from update_inputs is in
\* ALLOWED_INPUT_KEYS, and whenever at least one key is written,
\* model_results is recomputed from the updated session state before the
\* next rerun, so after an assistant update model_results is the result of
\* the updated inputs.
C26_UpdateAlwaysRecomputed ==
    AssistantUpdate =>
        LET upd == prev.call.out.update_inputs
        IN  /\ DOMAIN upd \subseteq ALLOWED_INPUT_KEYS
            /\ \A k \in DOMAIN upd : session[k] = upd[k]
            /\ pc = "shown"
            /\ args = RecalcArgs(session)
            /\ results = AppModelTable[args]

====
